---- MODULE Spec2Model ----
(***************************************************************************)
(* ScheduledBackupService (Backend/src/services/backup/                    *)
(* scheduled-backup.service.ts): a cron-driven backup trigger.             *)
(*                                                                         *)
(* Time is a counter of schedule slots.  A cron expression is abstracted   *)
(* to the period of its fire times and a timezone to the offset it gives   *)
(* them.  The collaborators (DatabaseService, BackupService, the cron      *)
(* library, the SchedulerRegistry) are opaque: each call succeeds or       *)
(* throws, chosen nondeterministically.                                    *)
(*                                                                         *)
(* Spec      : the service exactly as the source has it.                   *)
(* SpecTimer : Spec plus the two steps the source leaves out               *)
(*             (SchedulerRegistry.addCronJob and CronJob.start) taken by   *)
(*             the environment, so that the cron callback and the          *)
(*             job-present branch of the registry lookups are exercised.   *)
(***************************************************************************)
EXTENDS Integers, Sequences, FiniteSets, TLC

\* ---- bounds -------------------------------------------------------------
MaxNow  == 2    \* clock slots 0..MaxNow
MaxRuns == 2    \* pipeline invocations (scheduled + manual) per behaviour
MaxJobs == 2    \* calls of scheduleBackups() per behaviour
MaxStops == 2   \* calls of stopScheduledBackups() per behaviour

\* ---- program constants --------------------------------------------------
KeepCount == 30                      \* cleanOldBackups(30)
DefaultCron == "0 2 * * *"
DefaultTimezone == "UTC"

\* ---- environment values -------------------------------------------------
\* "" stands for an unset variable (falsy in `process.env.X || default`).
CronValues == {"", "* * * * *", "not a cron"}
TimezoneValues == {"", "Asia/Manila", "Mars/Phobos"}
EnabledValues == {"", "true", "false"}

VARIABLES
  env,        \* process.env: BACKUP_CRON, BACKUP_TIMEZONE, BACKUP_ENABLED
  now,        \* current time
  boot,       \* "new" | "ready" | "crashed": outcome of onModuleInit
  jobs,       \* the CronJob objects constructed so far
  registry,   \* indices of jobs held by the SchedulerRegistry under 'database-backup'
  runs,       \* the pipeline invocations (cron callback, manual trigger)
  pathCtr,    \* artifacts produced so far by createFullBackup
  status,     \* what the last getScheduleStatus() call produced
  stopped,    \* what the last stopScheduledBackups() call produced
  stopCalls   \* calls of stopScheduledBackups() so far

vars == <<env, now, boot, jobs, registry, runs, pathCtr, status, stopped,
          stopCalls>>

\* ---- configuration ------------------------------------------------------
\* process.env.BACKUP_CRON || '0 2 * * *'
cronExpression == IF env.BACKUP_CRON = "" THEN DefaultCron ELSE env.BACKUP_CRON

\* process.env.BACKUP_TIMEZONE || 'UTC'
timezone == IF env.BACKUP_TIMEZONE = "" THEN DefaultTimezone ELSE env.BACKUP_TIMEZONE

\* process.env.BACKUP_ENABLED !== 'false'
enabled == env.BACKUP_ENABLED # "false"

\* ---- the cron library ---------------------------------------------------
\* Does the CronJob constructor accept the expression and the timezone?
CronAccepts(expr, tz) ==
  /\ expr \in {DefaultCron, "* * * * *"}
  /\ tz \in {DefaultTimezone, "Asia/Manila"}

\* Period, in slots, of the fire times of an accepted expression.
CronPeriod(expr) == IF expr = "* * * * *" THEN 1 ELSE 2

\* Shift the timezone gives to the fire times.
TzOffset(tz) == IF tz = "Asia/Manila" THEN 1 ELSE 0

\* CronJob.nextDate(): the first fire time strictly after t.
NextDate(expr, tz, t) ==
  CHOOSE n \in (t + 1)..(t + CronPeriod(expr)) :
    (n + TzOffset(tz)) % CronPeriod(expr) = 0

\* new CronJob(cronExpression, callback, null /* onComplete */,
\*             false /* start */, timezone): the job is built but not armed.
\* next is the armed fire time (-1: no timer armed); last is lastDate()
\* (-1: null, never fired).
NewCronJob(expr, tz) ==
  [expr |-> expr, tz |-> tz, running |-> FALSE, next |-> -1, last |-> -1]

\* ---- scheduleBackups() --------------------------------------------------
\* scheduleBackupsOutcome without the early return for BACKUP_ENABLED=false.
scheduleBackupsOutcome_IgnoresEnabled ==
  IF ~CronAccepts(cronExpression, timezone) THEN "threw" ELSE "scheduled"

\* scheduleBackupsOutcome with the CronJob construction in a try whose catch
\* logs the rejected configuration and returns.
scheduleBackupsOutcome_SwallowsBadConfig ==
  IF ~enabled THEN "disabled"
  ELSE IF ~CronAccepts(cronExpression, timezone) THEN "disabled"
  ELSE "scheduled"

\* What one call does: "disabled" (early return), "threw" (the CronJob
\* constructor rejects the configuration; nothing catches it) or "scheduled".
scheduleBackupsOutcome ==
  IF ~enabled THEN "disabled"
  ELSE IF ~CronAccepts(cronExpression, timezone) THEN "threw"
  ELSE "scheduled"

\* The CronJob objects after one call of scheduleBackups().
scheduleBackupsJobs ==
  IF scheduleBackupsOutcome = "scheduled"
  THEN Append(jobs, NewCronJob(cronExpression, timezone))
  ELSE jobs

\* scheduleBackupsRegistry with the new job put under the key beside
\* whatever is there.
scheduleBackupsRegistry_AddsBesideOld ==
  IF scheduleBackupsOutcome = "scheduled"
  THEN registry \cup {Len(jobs) + 1}
  ELSE registry

\* The registry after one call of scheduleBackups(): the source never calls
\* schedulerRegistry.addCronJob, so the registry is left as it was.
scheduleBackupsRegistry == registry

\* onModuleInit(): calls scheduleBackups(); a throw is not caught.
OnModuleInit ==
  /\ boot = "new"
  /\ boot' = IF scheduleBackupsOutcome = "threw" THEN "crashed" ELSE "ready"
  /\ jobs' = scheduleBackupsJobs
  /\ registry' = scheduleBackupsRegistry
  /\ UNCHANGED <<env, now, runs, pathCtr, status, stopped, stopCalls>>

\* A later call of the public method scheduleBackups() by another caller.
\* (A configuration that throws has already ended the process at startup.)
ScheduleBackups ==
  /\ boot = "ready"
  /\ Len(jobs) < MaxJobs
  /\ jobs' = scheduleBackupsJobs
  /\ registry' = scheduleBackupsRegistry
  /\ UNCHANGED <<env, now, boot, runs, pathCtr, status, stopped, stopCalls>>

\* ---- the backup pipeline ------------------------------------------------
\* One invocation of the cron callback or of triggerManualBackup().
\* client/create/upload/prune: "none" (not called), "running" (awaited),
\* "ok", "failed".  path: the artifact createFullBackup returned (0: none);
\* uploaded: the path handed to uploadToSupabase; keep: the argument of
\* cleanOldBackups.  outcome: "running"; "completed" or "caught" for the
\* callback; "returned" or "threw" for the manual trigger.
NewRun(kind, j) ==
  [kind |-> kind, job |-> j, client |-> "none",
   create |-> "none", upload |-> "none", prune |-> "none",
   path |-> 0, uploaded |-> 0, keep |-> 0, outcome |-> "running", result |-> 0]

\* callbackStart behind a skip-if-running flag: a firing that finds an
\* earlier firing still in flight returns at once.
callbackStart_SkipsIfRunning(j, clientOk) ==
  IF \E i \in 1..Len(runs) :
       runs[i].kind = "scheduled" /\ runs[i].outcome = "running"
  THEN [NewRun("scheduled", j) EXCEPT !.outcome = "completed"]
  ELSE IF clientOk
  THEN [NewRun("scheduled", j) EXCEPT !.client = "ok", !.create = "running"]
  ELSE [NewRun("scheduled", j) EXCEPT !.client = "failed", !.outcome = "caught"]

\* The cron callback up to its first await: getClient(), then the call of
\* createFullBackup(client).  A throw of getClient lands in the catch.
callbackStart(j, clientOk) ==
  IF clientOk
  THEN [NewRun("scheduled", j) EXCEPT !.client = "ok", !.create = "running"]
  ELSE [NewRun("scheduled", j) EXCEPT !.client = "failed", !.outcome = "caught"]

\* callbackResume uploading from a field of the service that only the first
\* invocation sets, instead of its own local backupPath.
callbackResume_UploadsSharedPath(r, ok, p) ==
  IF r.create = "running" THEN
    IF ok THEN [r EXCEPT !.create = "ok", !.path = p, !.upload = "running",
                         !.uploaded = IF pathCtr > 0 THEN 1 ELSE p]
    ELSE [r EXCEPT !.create = "failed", !.outcome = "caught"]
  ELSE IF r.upload = "running" THEN
    IF ok THEN [r EXCEPT !.upload = "ok", !.prune = "running", !.keep = KeepCount]
    ELSE [r EXCEPT !.upload = "failed", !.outcome = "caught"]
  ELSE
    IF ok THEN [r EXCEPT !.prune = "ok", !.outcome = "completed"]
    ELSE [r EXCEPT !.prune = "failed", !.outcome = "caught"]

\* callbackResume with a catch around createFullBackup alone: a failed
\* create is logged and the callback goes on to upload and prune.
callbackResume_ContinuesAfterFailure(r, ok, p) ==
  IF r.create = "running" THEN
    IF ok THEN [r EXCEPT !.create = "ok", !.path = p,
                         !.upload = "running", !.uploaded = p]
    ELSE [r EXCEPT !.create = "failed", !.upload = "running"]
  ELSE IF r.upload = "running" THEN
    IF ok THEN [r EXCEPT !.upload = "ok", !.prune = "running", !.keep = KeepCount]
    ELSE [r EXCEPT !.upload = "failed", !.outcome = "caught"]
  ELSE
    IF ok THEN [r EXCEPT !.prune = "ok", !.outcome = "completed"]
    ELSE [r EXCEPT !.prune = "failed", !.outcome = "caught"]

\* callbackResume with the await on uploadToSupabase missing: the prune is
\* called while the upload is still running.
callbackResume_UploadNotAwaited(r, ok, p) ==
  IF r.create = "running" THEN
    IF ok THEN [r EXCEPT !.create = "ok", !.path = p, !.upload = "running",
                         !.uploaded = p, !.prune = "running", !.keep = KeepCount]
    ELSE [r EXCEPT !.create = "failed", !.outcome = "caught"]
  ELSE
    IF ok THEN [r EXCEPT !.prune = "ok", !.outcome = "completed"]
    ELSE [r EXCEPT !.prune = "failed", !.outcome = "caught"]

\* The cron callback resumed when the awaited step settles (ok or rejected);
\* p is the path createFullBackup resolves to.
callbackResume(r, ok, p) ==
  IF r.create = "running" THEN
    IF ok THEN [r EXCEPT !.create = "ok", !.path = p,
                         !.upload = "running", !.uploaded = p]
    ELSE [r EXCEPT !.create = "failed", !.outcome = "caught"]
  ELSE IF r.upload = "running" THEN
    IF ok THEN [r EXCEPT !.upload = "ok", !.prune = "running", !.keep = KeepCount]
    ELSE [r EXCEPT !.upload = "failed", !.outcome = "caught"]
  ELSE
    IF ok THEN [r EXCEPT !.prune = "ok", !.outcome = "completed"]
    ELSE [r EXCEPT !.prune = "failed", !.outcome = "caught"]

\* callbackJobs with a job.stop() in the catch.
callbackJobs_StopsOnFailure(r, ok) ==
  IF ok THEN jobs ELSE [jobs EXCEPT ![r.job].running = FALSE, ![r.job].next = -1]

\* The job objects after the callback resumed: neither the try nor the
\* catch touches the job or the registry.
callbackJobs(r, ok) == jobs

\* manualStart refusing to run unless scheduled backups are enabled and the
\* job is registered.
manualStart_RequiresScheduledJob(clientOk) ==
  IF ~enabled \/ registry = {}
  THEN [NewRun("manual", 0) EXCEPT !.outcome = "threw"]
  ELSE IF clientOk
  THEN [NewRun("manual", 0) EXCEPT !.client = "ok", !.create = "running"]
  ELSE [NewRun("manual", 0) EXCEPT !.client = "failed", !.outcome = "threw"]

\* manualStart refusing to run while a scheduled firing is in flight.
manualStart_RejectsWhileScheduledRuns(clientOk) ==
  IF \E i \in 1..Len(runs) :
       runs[i].kind = "scheduled" /\ runs[i].outcome = "running"
  THEN [NewRun("manual", 0) EXCEPT !.outcome = "threw"]
  ELSE IF clientOk
  THEN [NewRun("manual", 0) EXCEPT !.client = "ok", !.create = "running"]
  ELSE [NewRun("manual", 0) EXCEPT !.client = "failed", !.outcome = "threw"]

\* triggerManualBackup() up to its first await.
manualStart(clientOk) ==
  IF clientOk
  THEN [NewRun("manual", 0) EXCEPT !.client = "ok", !.create = "running"]
  ELSE [NewRun("manual", 0) EXCEPT !.client = "failed", !.outcome = "threw"]

\* manualResume with the scheduled pipeline's prune step copied in.
manualResume_Prunes(r, ok, p) ==
  IF r.create = "running" THEN
    IF ok THEN [r EXCEPT !.create = "ok", !.path = p,
                         !.upload = "running", !.uploaded = p]
    ELSE [r EXCEPT !.create = "failed", !.outcome = "threw"]
  ELSE IF r.upload = "running" THEN
    IF ok THEN [r EXCEPT !.upload = "ok", !.prune = "running", !.keep = KeepCount]
    ELSE [r EXCEPT !.upload = "failed", !.outcome = "threw"]
  ELSE
    IF ok THEN [r EXCEPT !.prune = "ok", !.outcome = "returned", !.result = r.path]
    ELSE [r EXCEPT !.prune = "failed", !.outcome = "threw"]

\* manualResume with the upload failure logged but not re-thrown.
manualResume_SwallowsUploadError(r, ok, p) ==
  IF r.create = "running" THEN
    IF ok THEN [r EXCEPT !.create = "ok", !.path = p,
                         !.upload = "running", !.uploaded = p]
    ELSE [r EXCEPT !.create = "failed", !.outcome = "threw"]
  ELSE
    IF ok THEN [r EXCEPT !.upload = "ok", !.outcome = "returned", !.result = r.path]
    ELSE [r EXCEPT !.upload = "failed", !.outcome = "returned", !.result = r.path]

\* triggerManualBackup() resumed when the awaited step settles.
manualResume(r, ok, p) ==
  IF r.create = "running" THEN
    IF ok THEN [r EXCEPT !.create = "ok", !.path = p,
                         !.upload = "running", !.uploaded = p]
    ELSE [r EXCEPT !.create = "failed", !.outcome = "threw"]
  ELSE
    IF ok THEN [r EXCEPT !.upload = "ok", !.outcome = "returned", !.result = r.path]
    ELSE [r EXCEPT !.upload = "failed", !.outcome = "threw"]

\* createFullBackup produces a fresh artifact each time it succeeds.
PathCtrAfter(r, ok) == IF r.create = "running" /\ ok THEN pathCtr + 1 ELSE pathCtr

\* A caller (the HTTP controller) invokes triggerManualBackup().
TriggerManualBackup ==
  /\ boot = "ready"
  /\ Len(runs) < MaxRuns
  /\ \E clientOk \in BOOLEAN : runs' = Append(runs, manualStart(clientOk))
  /\ UNCHANGED <<env, now, boot, jobs, registry, pathCtr, status, stopped, stopCalls>>

\* The step a manual invocation awaits settles.
ManualSettles ==
  \E i \in 1..Len(runs), ok \in BOOLEAN :
    /\ runs[i].kind = "manual"
    /\ runs[i].outcome = "running"
    /\ runs' = [runs EXCEPT ![i] = manualResume(runs[i], ok, pathCtr + 1)]
    /\ pathCtr' = PathCtrAfter(runs[i], ok)
    /\ UNCHANGED <<env, now, boot, jobs, registry, status, stopped, stopCalls>>

\* ---- the scheduler registry ---------------------------------------------
\* schedulerRegistry.getCronJob('database-backup'): 0 when the lookup throws
\* (no job under the key), else the index of the job.
getCronJob == IF registry = {} THEN 0 ELSE CHOOSE j \in registry : TRUE

\* ---- stopScheduledBackups() ---------------------------------------------
\* stopOutcome with the registry lookup outside the try.
stopOutcome_LookupOutsideTry == IF getCronJob = 0 THEN "threw" ELSE "stopped"

\* "stopped" when the lookup and job.stop() went through, "logged" when the
\* lookup threw and the catch logged it; "threw" would be an error reaching
\* the caller.
stopOutcome == IF getCronJob = 0 THEN "logged" ELSE "stopped"

\* stopJobs with the job.stop() call left out: the timer stays armed.
stopJobs_LeavesTimerArmed == jobs

\* job.stop(): disarms the timer of the looked-up job; the job stays in the
\* registry.
stopJobs ==
  IF getCronJob = 0 THEN jobs
  ELSE [jobs EXCEPT ![getCronJob].running = FALSE, ![getCronJob].next = -1]

StopScheduledBackups ==
  /\ boot = "ready"
  /\ stopCalls < MaxStops
  /\ jobs' = stopJobs
  /\ stopped' = stopOutcome
  /\ stopCalls' = stopCalls + 1
  /\ UNCHANGED <<env, now, boot, registry, runs, pathCtr, status>>

\* ---- getScheduleStatus() ------------------------------------------------
NA == <<"N/A">>

\* Date.prototype.toISOString(): the UTC rendering of a time.
toISOString(t) == <<"Z", t>>

\* formatGMT8(date): the Asia/Manila (UTC+8) rendering of a time.
formatGMT8(t) == <<"GMT+8", t + 8>>

\* The record of the catch branch.
degradedStatus ==
  [enabled |-> FALSE, cronExpression |-> cronExpression,
   error |-> "Scheduler not initialized"]

\* The record of the try branch for job j at time t.
fullStatus(j, t) ==
  LET nextDate == NextDate(jobs[j].expr, jobs[j].tz, t)
      lastDate == jobs[j].last
  IN [enabled |-> TRUE, cronExpression |-> cronExpression, timezone |-> timezone,
      nextRun |-> toISOString(nextDate),
      nextRunLocal |-> formatGMT8(nextDate),
      lastRun |-> IF lastDate = -1 THEN NA ELSE toISOString(lastDate),
      lastRunLocal |-> IF lastDate = -1 THEN NA ELSE formatGMT8(lastDate),
      serverTime |-> toISOString(t),
      serverTimeLocal |-> formatGMT8(t)]

\* getScheduleStatus(): readsOk says whether job.nextDate()/job.lastDate()
\* and the formatting go through.  Every throw inside the try lands in the
\* catch, which returns the degraded record.
\* getScheduleStatus with the reads of the job outside the try.
getScheduleStatus_ReadsOutsideTry(readsOk) ==
  IF getCronJob = 0
  THEN [outcome |-> "returned", reads |-> "none", value |-> degradedStatus]
  ELSE IF ~readsOk
  THEN [outcome |-> "threw", reads |-> "threw"]
  ELSE [outcome |-> "returned", reads |-> "ok", value |-> fullStatus(getCronJob, now)]

\* outcome: "returned" or "threw"; reads: "none" (lookup threw first), "ok",
\* "threw"; value: the record returned.
getScheduleStatus(readsOk) ==
  IF getCronJob = 0
  THEN [outcome |-> "returned", reads |-> "none", value |-> degradedStatus]
  ELSE IF ~readsOk
  THEN [outcome |-> "returned", reads |-> "threw", value |-> degradedStatus]
  ELSE [outcome |-> "returned", reads |-> "ok", value |-> fullStatus(getCronJob, now)]

\* GetScheduleStatus calling scheduleBackups() again when it finds no job.
GetScheduleStatus_ReschedulesWhenMissing ==
  /\ boot = "ready"
  /\ \E readsOk \in BOOLEAN : status' = getScheduleStatus(readsOk)
  /\ jobs' = IF getCronJob = 0 /\ Len(jobs) < MaxJobs
             THEN scheduleBackupsJobs ELSE jobs
  /\ UNCHANGED <<env, now, boot, registry, runs, pathCtr, stopped, stopCalls>>

GetScheduleStatus ==
  /\ boot = "ready"
  /\ \E readsOk \in BOOLEAN : status' = getScheduleStatus(readsOk)
  /\ UNCHANGED <<env, now, boot, jobs, registry, runs, pathCtr, stopped, stopCalls>>

\* ---- time and the timer -------------------------------------------------
\* Time passes; an armed timer fires at its fire time, not after it.
Tick ==
  /\ now < MaxNow
  /\ \A j \in 1..Len(jobs) : jobs[j].running => jobs[j].next > now
  /\ now' = now + 1
  /\ UNCHANGED <<env, boot, jobs, registry, runs, pathCtr, status, stopped, stopCalls>>

\* The timer of a running job reaches its fire time: the cron library
\* records lastDate, re-arms for the next fire time and calls the callback.
FireOnTick ==
  \E j \in 1..Len(jobs), clientOk \in BOOLEAN :
    /\ jobs[j].running
    /\ jobs[j].next = now
    /\ Len(runs) < MaxRuns
    /\ jobs' = [jobs EXCEPT ![j].last = now,
                            ![j].next = NextDate(jobs[j].expr, jobs[j].tz, now)]
    /\ runs' = Append(runs, callbackStart(j, clientOk))
    /\ UNCHANGED <<env, now, boot, registry, pathCtr, status, stopped, stopCalls>>

\* The step a callback invocation awaits settles.
CallbackSettles ==
  \E i \in 1..Len(runs), ok \in BOOLEAN :
    /\ runs[i].kind = "scheduled"
    /\ runs[i].outcome = "running"
    /\ runs' = [runs EXCEPT ![i] = callbackResume(runs[i], ok, pathCtr + 1)]
    /\ jobs' = callbackJobs(runs[i], ok)
    /\ pathCtr' = PathCtrAfter(runs[i], ok)
    /\ UNCHANGED <<env, now, boot, registry, status, stopped, stopCalls>>

\* ---- the registration the source leaves out -----------------------------
\* schedulerRegistry.addCronJob('database-backup', job); job.start():
\* the registry refuses a second job under a name already taken.
RegisterAndStart ==
  \E j \in 1..Len(jobs) :
    /\ boot = "ready"
    /\ registry = {}
    /\ registry' = {j}
    /\ jobs' = [jobs EXCEPT ![j].running = TRUE,
                            ![j].next = NextDate(jobs[j].expr, jobs[j].tz, now)]
    /\ UNCHANGED <<env, now, boot, runs, pathCtr, status, stopped, stopCalls>>

\* ---- specifications -----------------------------------------------------
Init ==
  /\ env \in [BACKUP_CRON : CronValues, BACKUP_TIMEZONE : TimezoneValues,
               BACKUP_ENABLED : EnabledValues]
  /\ now = 0
  /\ boot = "new"
  /\ jobs = <<>>
  /\ registry = {}
  /\ runs = <<>>
  /\ pathCtr = 0
  /\ status = [outcome |-> "none"]
  /\ stopped = "none"
  /\ stopCalls = 0

\* The service as the source has it.
Next ==
  \/ OnModuleInit
  \/ ScheduleBackups
  \/ TriggerManualBackup
  \/ ManualSettles
  \/ StopScheduledBackups
  \/ GetScheduleStatus
  \/ Tick

Spec == Init /\ [][Next]_vars

\* The service with the job registered and started by the environment.
NextTimer ==
  \/ Next
  \/ RegisterAndStart
  \/ FireOnTick
  \/ CallbackSettles

SpecTimer == Init /\ [][NextTimer]_vars

\* Time passes and an armed timer fires when its time has come.
FairSpecTimer == SpecTimer /\ WF_vars(Tick) /\ WF_vars(FireOnTick)

\* ---- helpers for the properties -----------------------------------------
ValidConfig == CronAccepts(cronExpression, timezone)

\* scheduleBackups() has completed with backups enabled and a valid
\* configuration.
Scheduled == boot = "ready" /\ enabled /\ ValidConfig

ScheduledRuns == {i \in 1..Len(runs) : runs[i].kind = "scheduled"}
ManualRuns == {i \in 1..Len(runs) : runs[i].kind = "manual"}

\* ---- C1 -----------------------------------------------------------------
\* C1: once scheduleBackups() has completed with backups enabled and a valid
\* cron expression and timezone, exactly one job is registered under
\* "database-backup".
C1_ExactlyOneJobRegistered == Scheduled => Cardinality(registry) = 1

\* ---- C2 -----------------------------------------------------------------
\* C2: once scheduleBackups() has completed with backups enabled, the job it
\* built is armed (running, with a fire time still to come) as long as no
\* stop went through, and no callback has run before a fire time was reached.
C2_TimerArmedByScheduleBackups ==
  (Scheduled /\ stopped # "stopped") =>
    /\ \E j \in 1..Len(jobs) : jobs[j].running /\ jobs[j].next >= now
    /\ \A i \in ScheduledRuns : jobs[runs[i].job].last # -1

\* ---- C3 -----------------------------------------------------------------
\* C3: after startup with backups enabled and a valid configuration, every
\* getScheduleStatus() returns the full record with enabled: true, never
\* the degraded "Scheduler not initialized" record, also after a stop.
C3_StatusFullAfterStartup ==
  (Scheduled /\ status.outcome = "returned") =>
    /\ status.value.enabled = TRUE
    /\ "error" \notin DOMAIN status.value

\* ---- C4 -----------------------------------------------------------------
\* C4: with BACKUP_ENABLED = "false" no job is registered, no timer is armed
\* and no scheduled firing ever runs, and every getScheduleStatus() returns
\* {enabled: false, cronExpression, error: "Scheduler not initialized"}.
C4_DisabledNoJobDegradedStatus ==
  env.BACKUP_ENABLED = "false" =>
    /\ registry = {}
    /\ \A j \in 1..Len(jobs) : ~jobs[j].running
    /\ ScheduledRuns = {}
    /\ status.outcome = "returned" =>
         status.value = [enabled |-> FALSE, cronExpression |-> cronExpression,
                         error |-> "Scheduler not initialized"]

\* Backups are disabled, startup is over, time has passed and the status
\* has been queried.
C4_Witness ==
  /\ env.BACKUP_ENABLED = "false"
  /\ boot = "ready"
  /\ now > 0
  /\ status.outcome = "returned"

\* ---- C5 -----------------------------------------------------------------
FullStatusFields ==
  {"enabled", "cronExpression", "timezone", "nextRun", "nextRunLocal",
   "lastRun", "lastRunLocal", "serverTime", "serverTimeLocal"}

\* C5: getScheduleStatus() never throws, whether the job is absent, present,
\* or present with failing nextDate()/lastDate() reads: it returns the full
\* record or the degraded record.
C5_StatusNeverThrows ==
  /\ status.outcome \in {"none", "returned"}
  /\ status.outcome = "returned" =>
       \/ /\ DOMAIN status.value = FullStatusFields
          /\ status.value.enabled = TRUE
       \/ /\ DOMAIN status.value = {"enabled", "cronExpression", "error"}
          /\ status.value.enabled = FALSE
          /\ status.value.error = "Scheduler not initialized"

\* The status was queried with the job present and its reads failing.
C5_Witness ==
  /\ status.outcome = "returned"
  /\ status.reads = "threw"
  /\ registry # {}

\* ---- C6 -----------------------------------------------------------------
\* The scheduled firings of job j that ended in the catch.
FailedFirings(j) ==
  {i \in ScheduledRuns : runs[i].job = j /\ runs[i].outcome = "caught"}

\* The scheduled firings of job j so far.
Firings(j) == {i \in ScheduledRuns : runs[i].job = j}

\* Job j exists and its timer is running.
Armed(j) == j <= Len(jobs) /\ jobs[j].running

\* A failed firing leaves the job in the registry and armed.
FailedFiringKeepsJob ==
  \A j \in 1..Len(jobs) :
    (FailedFirings(j) # {} /\ stopped # "stopped") =>
      /\ j \in registry
      /\ jobs[j].running
      /\ jobs[j].next >= now

\* After a failed firing the job fires again at its next fire time, unless
\* it is stopped first or the bounds of the model are exhausted.
FailedFiringFiresAgain ==
  \A j \in 1..MaxJobs, k \in 1..MaxRuns :
    (/\ FailedFirings(j) # {}
     /\ Cardinality(Firings(j)) = k
     /\ Armed(j)
     /\ jobs[j].next <= MaxNow
     /\ Len(runs) < MaxRuns)
    ~> (\/ Cardinality(Firings(j)) > k
        \/ ~Armed(j)
        \/ Len(runs) = MaxRuns)

C7_FailureAbandonsAndIsCaught ==
  \A i \in ScheduledRuns :
    LET r == runs[i] IN
    /\ r.outcome # "threw"
    /\ r.client = "failed" =>
         r.create = "none" /\ r.upload = "none" /\ r.prune = "none"
    /\ r.create = "failed" => r.upload = "none" /\ r.prune = "none"
    /\ r.upload = "failed" => r.prune = "none"
    /\ "failed" \in {r.client, r.create, r.upload, r.prune} => r.outcome = "caught"

\* Firings have failed at createFullBackup and at uploadToSupabase.
C7_Witness ==
  \E i, k \in ScheduledRuns :
    /\ runs[i].create = "failed"
    /\ runs[k].upload = "failed"

\* ---- C8 -----------------------------------------------------------------
\* C8: within one scheduled firing the steps run one after the other:
\* uploadToSupabase is not started before createFullBackup has finished,
\* cleanOldBackups is not started before uploadToSupabase has finished.
C8_StepsStrictlySequential ==
  \A i \in ScheduledRuns :
    LET r == runs[i] IN
    /\ r.upload # "none" => r.create = "ok"
    /\ r.prune # "none" => r.upload = "ok"
    /\ r.create # "none" => r.client = "ok"

\* A firing has gone through create and upload and is pruning.
C8_Witness ==
  \E i \in ScheduledRuns : runs[i].prune = "running" /\ runs[i].keep = KeepCount

\* ---- C9 -----------------------------------------------------------------
\* C9: triggerManualBackup() never calls cleanOldBackups, whatever the
\* outcome of its create and upload steps; only a scheduled firing prunes.
C9_ManualNeverPrunes ==
  \A i \in 1..Len(runs) :
    /\ runs[i].kind = "manual" => runs[i].prune = "none" /\ runs[i].keep = 0
    /\ runs[i].prune # "none" => runs[i].kind = "scheduled"

\* One manual backup has returned its path and another has failed.
C9_Witness ==
  \E i, k \in ManualRuns :
    /\ runs[i].outcome = "returned"
    /\ runs[k].outcome = "threw"

\* ---- C10 ----------------------------------------------------------------
\* C10: triggerManualBackup() throws to its caller whenever getClient,
\* createFullBackup or uploadToSupabase failed, and returns the artifact
\* path only when both create and upload succeeded.
C10_ManualPropagatesErrors ==
  \A i \in ManualRuns :
    LET r == runs[i] IN
    /\ "failed" \in {r.client, r.create, r.upload} => r.outcome = "threw"
    /\ r.outcome = "threw" => r.result = 0
    /\ r.outcome = "returned" =>
         /\ r.create = "ok"
         /\ r.upload = "ok"
         /\ r.path # 0
         /\ r.result = r.path

\* A manual backup whose create succeeded and whose upload failed.
C10_Witness ==
  \E i \in ManualRuns :
    /\ runs[i].create = "ok"
    /\ runs[i].upload = "failed"
    /\ runs[i].outcome = "threw"

\* ---- C11 ----------------------------------------------------------------
\* C11: stopScheduledBackups() never throws to its caller: with no job under
\* "database-backup", and when called twice in succession, it completes
\* normally ("stopped") or with the failure logged ("logged").
C11_StopNeverThrows ==
  /\ stopped \in {"none", "stopped", "logged"}
  /\ stopCalls > 0 => stopped # "none"
  /\ stopped = "stopped" => registry # {}

\* stopScheduledBackups() has been called twice with no job registered.
C11_Witness ==
  /\ stopCalls = 2
  /\ registry = {}
  /\ stopped = "logged"

\* ---- C12 ----------------------------------------------------------------
\* C12: in every reachable state, also after scheduleBackups() was called
\* more than once, at most one job is held under "database-backup".
C12_AtMostOneJobUnderKey == Cardinality(registry) <= 1

\* scheduleBackups() has built a job twice.
C12_Witness ==
  /\ boot = "ready"
  /\ Len(jobs) >= 2

\* ---- C13 ----------------------------------------------------------------
\* C13: when the cron library rejects the cron expression or the timezone,
\* scheduleBackups() throws out of onModuleInit (startup fails) and no job
\* is left built, registered or running.
C13_BadConfigFailsStartup ==
  (enabled /\ ~ValidConfig /\ boot # "new") =>
    /\ boot = "crashed"
    /\ jobs = <<>>
    /\ registry = {}

\* Startup has failed on a rejected timezone.
C13_Witness ==
  /\ boot = "crashed"
  /\ env.BACKUP_TIMEZONE = "Mars/Phobos"
  /\ env.BACKUP_CRON # "not a cron"

\* ---- C14 ----------------------------------------------------------------
\* Scheduled invocations that have not finished.
ScheduledInFlight == {i \in ScheduledRuns : runs[i].outcome = "running"}

\* C14: stopScheduledBackups() only prevents future firings: once a stop of
\* the registered job went through no new scheduled firing starts; the stop
\* itself leaves every invocation as it is, and a firing in flight can
\* still take its next step.
C14_StopOnlyPreventsFutureFirings ==
  [][/\ stopped = "stopped" => ScheduledRuns' = ScheduledRuns
     /\ stopCalls' # stopCalls => runs' = runs
     /\ ScheduledInFlight # {} => ENABLED CallbackSettles]_vars

\* The job was stopped and a firing that began before the stop is now in
\* its prune step.
C14_Witness ==
  /\ stopped = "stopped"
  /\ \E i \in ScheduledInFlight : runs[i].prune = "running"

ManualInFlight == {i \in ManualRuns : runs[i].outcome = "running"}

C17_UploadsOwnArtifact ==
  \A i \in 1..Len(runs) :
    /\ runs[i].upload # "none" =>
         runs[i].path # 0 /\ runs[i].uploaded = runs[i].path
    /\ runs[i].upload = "none" => runs[i].uploaded = 0
    /\ \A k \in 1..Len(runs) :
         (k # i /\ runs[i].uploaded # 0) => runs[i].uploaded # runs[k].path

\* A scheduled and a manual invocation have interleaved (the one that began
\* later got its artifact first) and both have called the upload.
C17_Witness ==
  \E i \in 1..Len(runs), k \in 1..Len(runs) :
    /\ i < k
    /\ runs[i].kind # runs[k].kind
    /\ runs[i].upload # "none"
    /\ runs[k].upload # "none"
    /\ runs[k].path < runs[i].path

\* ---- C18 ----------------------------------------------------------------
\* A step of triggerManualBackup(): a manual invocation begins or resumes.
ManualStep ==
  \E i \in 1..Len(runs') :
    /\ runs'[i].kind = "manual"
    /\ i > Len(runs) \/ runs'[i] # runs[i]

\* C18: getScheduleStatus() and triggerManualBackup() leave the scheduler as
\* it is: no job is built, registered, removed, started or stopped by them,
\* whether they succeed or fail.
C18_StatusAndManualLeaveScheduler ==
  [][(status' # status \/ ManualStep) =>
       /\ jobs' = jobs
       /\ registry' = registry
       /\ stopped' = stopped
       /\ stopCalls' = stopCalls]_vars

\* With a job built, the status has been queried and manual backups have
\* both succeeded and failed.
C18_Witness ==
  /\ Len(jobs) >= 1
  /\ status.outcome = "returned"
  /\ \E i, k \in ManualRuns :
       runs[i].outcome = "returned" /\ runs[k].outcome = "threw"

\* ---- C19 ----------------------------------------------------------------
\* C19: triggerManualBackup() does not depend on the scheduler: whatever the
\* enabled flag, the registry and earlier stops, it can be called, it goes
\* on from getClient to createFullBackup, and it throws only when one of
\* its own steps failed.
C19_ManualIndependentOfScheduler ==
  /\ (boot = "ready" /\ Len(runs) < MaxRuns) => ENABLED TriggerManualBackup
  /\ ManualInFlight # {} => ENABLED ManualSettles
  /\ \A i \in ManualRuns :
       /\ runs[i].client = "ok" => runs[i].create # "none"
       /\ runs[i].outcome = "threw" =>
            "failed" \in {runs[i].client, runs[i].create, runs[i].upload}

\* Backups are disabled, no job is registered, a stop has been attempted,
\* and a manual backup has returned its path.
C19_Witness ==
  /\ ~enabled
  /\ registry = {}
  /\ stopCalls > 0
  /\ \E i \in ManualRuns :
       /\ runs[i].outcome = "returned"
       /\ runs[i].result = runs[i].path
       /\ runs[i].path # 0

====
